---- MODULE Spec2Model ----
(***************************************************************************)
(* Conway's Game of Life (cmyui/conway).                                   *)
(*                                                                         *)
(*   src/main.py  class Life: two buffers (cells_table, prev_cells_table), *)
(*                a run() loop, and a SIGWINCH handler that records a      *)
(*                pending window size.                                     *)
(*   src/game.py  class Grid: one buffer of cells, stepped into a fresh    *)
(*                buffer by update_grid_full.                              *)
(*                                                                         *)
(* Coordinates are 0-based as in the source; TLA+ sequences are 1-based,   *)
(* so a read of t[r][c] in the source is At(t, r, c) here.                 *)
(***************************************************************************)
EXTENDS Integers, Sequences, FiniteSets, TLC

\* ------------------------------------------------------------------ bounds
\* run(): the initial size and every requested size have at most this many cells.
MaxRunCells == 2
\* run(): frame_count stops growing here.
MaxFrames == 1
\* the wall clock stops ticking here.
MaxClock == 1
\* the log of sizes holds at most this many requested sizes.
MaxRequests == 2

\* one step, cells in the order of the source: grids of at most this many cells.
MaxCells == 9
\* one step, cells in any order: grids of at most this many cells.
MaxOrderCells == 6

\* the blinker: grids of 5 up to this many rows and columns.
MaxBlinkerSide == 5
\* several steps of both programs: grids of at most this many cells.
MaxTwinCells == 9
\* flip_cell: grids of at most this many cells.
MaxFlipCells == 4

\* ------------------------------------------------------------------ values
\* Optional[int]: None is the empty sequence, the integer v is <<v>>.
None == <<>>

Some(v) == <<v>>

\* Python truth value of an Optional[int]: None and 0 are false.
Truthy(x) == x /= None /\ x[1] /= 0

Max(a, b) == IF a >= b THEN a ELSE b

Min(a, b) == IF a <= b THEN a ELSE b

\* ------------------------------------------------------------------ tables
(* A table is a Python list of row references.  Two entries of the outer   *)
(* list may reference the same row object, so a table is a pair: ref[r] is *)
(* the identity of the row at index r, row[i] the content of row object i. *)

\* [[False] * width] * height : every outer entry references ONE row object.
ReplicatedTable(w, h) ==
    IF h <= 0 THEN [ref |-> <<>>, row |-> <<>>]
    ELSE [ref |-> [r \in 1..h |-> 1],
          row |-> << [c \in 1..Max(w, 0) |-> FALSE] >>]

\* a list built row by row: every row is its own object.
FreshTable(rows) == [ref |-> [r \in 1..Len(rows) |-> r], row |-> rows]

\* copy.deepcopy(table): a new object graph with the same contents and the
\* same sharing between rows (deepcopy's memo keeps shared references shared).
deepcopy(t) == [ref |-> t.ref, row |-> t.row]

\* len(table), len(table[r])
NumRows(t) == Len(t.ref)

RowLen(t, r) == Len(t.row[t.ref[r + 1]])

\* table[r][c]
At(t, r, c) == t.row[t.ref[r + 1]][c + 1]

\* table[r][c] = v : writes the row object, so every alias of the row sees it.
SetAt(t, r, c, v) == [t EXCEPT !.row[t.ref[r + 1]][c + 1] = v]

\* the (row_idx, column_idx) pairs that enumerate() yields over a table.
CellsOf(t) ==
    UNION {{<<r, c>> : c \in 0..(RowLen(t, r) - 1)} : r \in 0..(NumRows(t) - 1)}

\* the contents of a table as a plain matrix (a sequence of rows).
Matrix(t) == [r \in 1..NumRows(t) |-> t.row[t.ref[r]]]

\* every row has length w and there are h rows.
HasShape(t, w, h) ==
    /\ NumRows(t) = h
    /\ \A r \in 0..(h - 1) : RowLen(t, r) = w

\* no two outer entries reference the same row object.
IndependentRows(t) ==
    \A r1, r2 \in 1..NumRows(t) : t.ref[r1] = t.ref[r2] => r1 = r2

\* row-major order of enumerate(): first of a set of coordinates.
FirstOf(S) ==
    CHOOSE p \in S : \A q \in S : p[1] < q[1] \/ (p[1] = q[1] /\ p[2] <= q[2])

\* ------------------------------------------------------------------ Python
RECURSIVE SumSeq(_)
\* sum(seq)
SumSeq(s) == IF s = <<>> THEN 0 ELSE Head(s) + SumSeq(Tail(s))

\* range(0, stop, step) for step /= 0, as the sequence of its values.
PyRange0(stop, step) ==
    LET n == IF step > 0
             THEN (IF stop <= 0 THEN 0 ELSE ((stop - 1) \div step) + 1)
             ELSE (IF stop >= 0 THEN 0 ELSE (((-stop) - 1) \div (-step)) + 1)
    IN  [k \in 1..n |-> (k - 1) * step]

\* s[i:j] : negative bounds count from the end, both are clamped to the list.
PySlice(s, i, j) ==
    LET n  == Len(s)
        lo == IF i < 0 THEN Max(i + n, 0) ELSE Min(i, n)
        hi == IF j < 0 THEN Max(j + n, 0) ELSE Min(j, n)
    IN  IF hi <= lo THEN <<>> ELSE SubSeq(s, lo + 1, hi)

\* seq[i] on a list of n items: i in -n..n-1 addresses an item, a negative i
\* counting from the end; any other i raises IndexError.
PyIndexOk(i, n) == -n <= i /\ i < n

\* the 0-based position seq[i] addresses
PyIndex(i, n) == IF i < 0 THEN i + n ELSE i

\* random.choices([True, False], k=k) : any k values; no values for k <= 0.
Choices(k) == [1..k -> BOOLEAN]

\* ------------------------------------------------------------------ main.py
\* the eight probes of get_alive_neighbours, in the order of the source.
neighbour_indices(row_idx, column_idx) ==
    << <<row_idx - 1, column_idx>>,     <<row_idx, column_idx + 1>>,
       <<row_idx + 1, column_idx>>,     <<row_idx, column_idx - 1>>,
       <<row_idx - 1, column_idx - 1>>, <<row_idx - 1, column_idx + 1>>,
       <<row_idx + 1, column_idx - 1>>, <<row_idx + 1, column_idx + 1>> >>

\* get_alive_neighbours without the bounds test: an index past an edge wraps
\* to the opposite edge (a toroidal grid).
get_alive_neighbours_wrap(prev, w, h, row_idx, column_idx) ==
    LET idx == neighbour_indices(row_idx, column_idx)
    IN  SumSeq([i \in 1..8 |->
            IF At(prev, idx[i][1] % h, idx[i][2] % w) THEN 1 ELSE 0])

\* Life.get_alive_neighbours: the probes inside 0..height-1 x 0..width-1 are
\* read from prev_cells_table and summed (True counts 1).
get_alive_neighbours(prev, w, h, row_idx, column_idx) ==
    LET idx == neighbour_indices(row_idx, column_idx)
    IN  SumSeq([i \in 1..8 |->
            IF 0 <= idx[i][1] /\ idx[i][1] < h /\ 0 <= idx[i][2] /\ idx[i][2] < w
            THEN (IF At(prev, idx[i][1], idx[i][2]) THEN 1 ELSE 0)
            ELSE 0])

\* apply_rules' inner loop with the overpopulation test written > 4.
apply_rules_cell_over4(cells, prev, w, h, row_idx, column_idx) ==
    LET is_alive == At(cells, row_idx, column_idx)
        alive_neighbours_count == get_alive_neighbours(prev, w, h, row_idx, column_idx)
    IN  IF is_alive
        THEN IF alive_neighbours_count <= 1 THEN SetAt(cells, row_idx, column_idx, FALSE)
             ELSE IF alive_neighbours_count > 4 THEN SetAt(cells, row_idx, column_idx, FALSE)
             ELSE cells
        ELSE IF alive_neighbours_count = 3 THEN SetAt(cells, row_idx, column_idx, TRUE)
             ELSE cells

\* apply_rules' inner loop counting the neighbours in the buffer it writes.
apply_rules_cell_inplace(cells, prev, w, h, row_idx, column_idx) ==
    LET is_alive == At(cells, row_idx, column_idx)
        alive_neighbours_count == get_alive_neighbours(cells, w, h, row_idx, column_idx)
    IN  IF is_alive
        THEN IF alive_neighbours_count <= 1 THEN SetAt(cells, row_idx, column_idx, FALSE)
             ELSE IF alive_neighbours_count >= 4 THEN SetAt(cells, row_idx, column_idx, FALSE)
             ELSE cells
        ELSE IF alive_neighbours_count = 3 THEN SetAt(cells, row_idx, column_idx, TRUE)
             ELSE cells

\* the body of apply_rules' inner loop for one cell: is_alive is read from
\* cells_table, the count from prev_cells_table, the write goes to cells_table.
apply_rules_cell(cells, prev, w, h, row_idx, column_idx) ==
    LET is_alive == At(cells, row_idx, column_idx)
        alive_neighbours_count == get_alive_neighbours(prev, w, h, row_idx, column_idx)
    IN  IF is_alive
        THEN IF alive_neighbours_count <= 1 THEN SetAt(cells, row_idx, column_idx, FALSE)
             ELSE IF alive_neighbours_count >= 4 THEN SetAt(cells, row_idx, column_idx, FALSE)
             ELSE cells
        ELSE IF alive_neighbours_count = 3 THEN SetAt(cells, row_idx, column_idx, TRUE)
             ELSE cells

\* randomize_table cutting random_values into rows of height cells:
\* [random_values[i:i+height] for i in range(0, full_table_size, height)]
randomized_rows_tall(random_values, w, full_table_size) ==
    LET h      == full_table_size \div w
        starts == PyRange0(full_table_size, h)
    IN  [n \in 1..Len(starts) |-> PySlice(random_values, starts[n], starts[n] + h)]

\* randomize_table's new cells_table for given random_values:
\* [random_values[i:i+width] for i in range(0, full_table_size, width)]
randomized_rows(random_values, w, full_table_size) ==
    LET starts == PyRange0(full_table_size, w)
    IN  [n \in 1..Len(starts) |-> PySlice(random_values, starts[n], starts[n] + w)]

\* the tables randomize_table can produce for a width and height (width /= 0).
randomize_results(w, h) ==
    {FreshTable(randomized_rows(rv, w, w * h)) : rv \in Choices(w * h)}

\* the whole of apply_rules: the cells of `todo` (a sequence of coordinates)
\* handled one after the other.
RECURSIVE apply_rules_over(_, _, _, _, _)
apply_rules_over(cells, prev, w, h, todo) ==
    IF todo = <<>> THEN cells
    ELSE apply_rules_over(apply_rules_cell(cells, prev, w, h, Head(todo)[1], Head(todo)[2]),
                          prev, w, h, Tail(todo))

\* the coordinates of an h x w table in the order enumerate() yields them.
RowMajor(w, h) == [k \in 1..(w * h) |-> <<(k - 1) \div w, (k - 1) % w>>]

\* Life.apply_rules on a table of h rows of w cells.
apply_rules(cells, prev, w, h) == apply_rules_over(cells, prev, w, h, RowMajor(w, h))

\* text is a sequence of one-character strings.
\* the character of a decimal digit
DigitChar(d) == <<"0", "1", "2", "3", "4", "5", "6", "7", "8", "9">>[d + 1]

RECURSIVE str_int(_)
\* f"{n}" for an int n >= 0
str_int(n) == IF n < 10 THEN <<DigitChar(n)>> ELSE str_int(n \div 10) \o <<DigitChar(n % 10)>>

\* f"{x:.2f}" for x = num / den >= 0: two decimals, rounded to nearest (ties to even)
format_2f(num, den) ==
    LET q == (100 * num) \div den
        r == (100 * num) % den
        hundredths == IF 2 * r > den \/ (2 * r = den /\ q % 2 = 1) THEN q + 1 ELSE q
    IN  str_int(hundredths \div 100) \o <<".">>
            \o <<DigitChar((hundredths \div 10) % 10), DigitChar(hundredths % 10)>>

\* line 147: f" FPS: {frames_per_sec:.2f} | Frames: {self.frame_count}" with
\* frames_per_sec = frame_count / elapsed (line 146), elapsed > 0
frame_info_output(frames, elapsed) ==
    <<" ", "F", "P", "S", ":", " ">> \o format_2f(frames, elapsed)
        \o <<" ", "|", " ", "F", "r", "a", "m", "e", "s", ":", " ">> \o str_int(frames)

\* s[i:] = t : the list from index i on (negative i counts from the end, clamped
\* to the list) is replaced by the items of t.
PySliceAssignFrom(s, i, t) ==
    LET n  == Len(s)
        lo == IF i < 0 THEN Max(i + n, 0) ELSE Min(i, n)
    IN  SubSeq(s, 1, lo) \o t

\* print_cells_table's output_rows after line 148, for height >= 1: "X" for an
\* alive cell, " " for a dead one, the frame info laid over the first row.
\* Line 150 prints one line per row.
output_rows(table, w, h, frames, elapsed) ==
    LET rows == [r \in 1..h |-> [c \in 1..w |-> IF At(table, r - 1, c - 1) THEN "X" ELSE " "]]
        frame_info == frame_info_output(frames, elapsed)
    IN  [rows EXCEPT ![1] = PySliceAssignFrom(rows[1], w - Len(frame_info), frame_info)]

\* ------------------------------------------------------------------ game.py
(* Grid.cells is a list of rows of Cell objects, every Cell its own object: *)
(* a plain matrix, cells[y][x].alive in the source is g[y + 1][x + 1].     *)

\* [[Cell() for i in range(x_size)] for i in range(y_size)] : all dead.
DeadCells(xs, ys) == [y \in 1..ys |-> [x \in 1..xs |-> FALSE]]

\* get_neighbours without the test that skips the cell itself (line 62).
get_neighbours_self(g, xs, ys, _x, _y) ==
    LET entry(y, x) == IF x < 0 \/ x = xs THEN << None >>
                       ELSE << Some(g[y + 1][x + 1]) >>
        line(y) == IF y < 0 \/ y = ys THEN << None, None, None >>
                   ELSE entry(y, _x - 1) \o entry(y, _x) \o entry(y, _x + 1)
    IN  line(_y - 1) \o line(_y) \o line(_y + 1)

\* Grid.get_neighbours: the tuple of the neighbours' alive status, None for a
\* position outside the grid; a row outside the grid gives three None.
get_neighbours(g, xs, ys, _x, _y) ==
    LET entry(y, x) == IF _y = y /\ _x = x THEN <<>>
                       ELSE IF x < 0 \/ x = xs THEN << None >>
                       ELSE << Some(g[y + 1][x + 1]) >>
        line(y) == IF y < 0 \/ y = ys THEN << None, None, None >>
                   ELSE entry(y, _x - 1) \o entry(y, _x) \o entry(y, _x + 1)
    IN  line(_y - 1) \o line(_y) \o line(_y + 1)

\* sum(i if i is not None else 0 for i in neighbours)
neighbours_sum(neighbours) ==
    SumSeq([i \in 1..Len(neighbours) |->
        IF neighbours[i] = None THEN 0 ELSE IF neighbours[i][1] THEN 1 ELSE 0])

\* update_grid_full's inner loop with the survival test written range(2, 3).
update_grid_cell_two(g, fresh, xs, ys, x, y) ==
    LET n == neighbours_sum(get_neighbours(g, xs, ys, x, y))
    IN  IF g[y + 1][x + 1]
        THEN IF n \in 2..2 THEN [fresh EXCEPT ![y + 1][x + 1] = TRUE] ELSE fresh
        ELSE IF n = 3 THEN [fresh EXCEPT ![y + 1][x + 1] = TRUE] ELSE fresh

\* the body of update_grid_full's inner loop for the cell (x, y): reads
\* self.cells (g), writes the new buffer _cells (fresh).
update_grid_cell(g, fresh, xs, ys, x, y) ==
    LET n == neighbours_sum(get_neighbours(g, xs, ys, x, y))
    IN  IF g[y + 1][x + 1]
        THEN IF n \in 2..3 THEN [fresh EXCEPT ![y + 1][x + 1] = TRUE] ELSE fresh
        ELSE IF n = 3 THEN [fresh EXCEPT ![y + 1][x + 1] = TRUE] ELSE fresh

\* the whole of update_grid_full's loops: the cells of `todo` (a sequence of
\* <<y, x>>) handled one after the other.
RECURSIVE update_grid_over(_, _, _, _, _)
update_grid_over(g, fresh, xs, ys, todo) ==
    IF todo = <<>> THEN fresh
    ELSE update_grid_over(g, update_grid_cell(g, fresh, xs, ys, Head(todo)[2], Head(todo)[1]),
                          xs, ys, Tail(todo))

\* Grid.update_grid_full: the new self.cells.
update_grid_full(g, xs, ys) ==
    update_grid_over(g, DeadCells(xs, ys), xs, ys, RowMajor(xs, ys))

\* the coordinates <<y, x>> of a matrix
CoordsOf(g) == UNION {{<<y, x>> : x \in 0..(Len(g[y + 1]) - 1)} : y \in 0..(Len(g) - 1)}

\* should_continue_running answering that the loop is to stop.
should_continue_running_stop == FALSE

\* Life.should_continue_running
should_continue_running == TRUE

\* ------------------------------------------------------------------ state
VARIABLES
    \* class Life (src/main.py)
    width, height,              \* self.width, self.height
    cells_table,                \* self.cells_table
    prev_cells_table,           \* self.prev_cells_table
    start_time, frame_count,    \* self.start_time, self.frame_count
    should_regenerate_screen,   \* self.should_regenerate_screen
    new_width, new_height,      \* self.new_width, self.new_height (Optional[int])
    pc,                         \* the line of run() about to execute
    visited,                    \* cells the running apply_rules pass has handled
    exc,                        \* the exception that ended run(), "" if none
    clock,                      \* time.time()
    \* class Grid (src/game.py)
    x_size, y_size,             \* self.x_size, self.y_size
    cells,                      \* self.cells
    new_cells,                  \* _cells of update_grid_full
    grid_visited,               \* cells the running update_grid_full has handled
    grid_pc,                    \* position in update_grid_full
    \* history
    given_sizes,                \* log: the constructor's (width, height) and every
                                \*      pair update_window_size recorded (SpecLog only)
    passes,                     \* apply_rules passes completed since the last randomize_table
    snap                        \* the grid a step was entered with

lifeVars == <<width, height, cells_table, prev_cells_table, start_time, frame_count,
              should_regenerate_screen, new_width, new_height, pc, visited, exc,
              clock>>

gridVars == <<x_size, y_size, cells, new_cells, grid_visited, grid_pc>>

histVars == <<given_sizes, passes, snap>>

vars == <<lifeVars, gridVars, histVars>>

\* ------------------------------------------------------------------ sizes
\* positive sizes of at most n cells
PositiveSizes(n) == {s \in (1..n) \X (1..n) : s[1] * s[2] <= n}

\* sizes with a zero or negative dimension as well
AnySizes(n) == {s \in ((-1)..n) \X ((-1)..n) : s[1] * s[2] <= n}

\* ------------------------------------------------------------------ Life.__init__
\* the state Life(start_width, start_height) leaves (explicit sizes); the
\* SIGWINCH handler is installed.
LifeInit(start_width, start_height) ==
    /\ width = start_width
    /\ height = start_height
    /\ cells_table = ReplicatedTable(start_width, start_height)
    /\ prev_cells_table = ReplicatedTable(start_width, start_height)
    /\ clock = 0
    /\ start_time = 0
    /\ frame_count = 0
    /\ should_regenerate_screen = FALSE
    /\ new_width = None
    /\ new_height = None
    /\ pc = "l169"
    /\ visited = {}
    /\ exc = ""
    /\ passes = 0
    /\ snap = <<>>

\* no Grid of game.py is in use
GridIdle ==
    /\ x_size = 0
    /\ y_size = 0
    /\ cells = <<>>
    /\ new_cells = <<>>
    /\ grid_visited = {}
    /\ grid_pc = "idle"

\* ------------------------------------------------------------------ the handler
\* update_window_size applying the size at once instead of recording it.
update_window_size_now(w, h) ==
    /\ exc = ""
    /\ should_regenerate_screen' = TRUE
    /\ new_width' = Some(w)
    /\ new_height' = Some(h)
    /\ width' = w
    /\ height' = h
    /\ UNCHANGED <<cells_table, prev_cells_table, start_time,
                   frame_count, pc, visited, exc, clock>>
    /\ UNCHANGED <<gridVars, passes, snap>>

\* sigwinch_handler -> Life.update_window_size with the terminal's size less one
\* in each dimension, (w, h) here.  The handler runs in the main thread and
\* returns before run() goes on.  The interpreter the program names
\* (#!/usr/bin/env python3.9) runs pending signal handlers between any two
\* statements, so the handler may take its step wherever run() stands.
update_window_size(w, h) ==
    /\ exc = ""
    /\ should_regenerate_screen' = TRUE
    /\ new_width' = Some(w)
    /\ new_height' = Some(h)
    /\ UNCHANGED <<width, height, cells_table, prev_cells_table, start_time,
                   frame_count, pc, visited, exc, clock>>
    /\ UNCHANGED <<gridVars, passes, snap>>

\* the wall clock advances
tick ==
    /\ clock < MaxClock
    /\ clock' = clock + 1
    /\ UNCHANGED <<width, height, cells_table, prev_cells_table, start_time,
                   frame_count, should_regenerate_screen, new_width, new_height,
                   pc, visited, exc>>
    /\ UNCHANGED <<gridVars, histVars>>

\* ------------------------------------------------------------------ Life.run
\* an exception leaves run(): nothing else changes
raise(name) ==
    /\ exc' = name
    /\ pc' = "raised"
    /\ UNCHANGED <<width, height, cells_table, prev_cells_table, start_time,
                   frame_count, should_regenerate_screen, new_width, new_height,
                   visited, clock>>
    /\ UNCHANGED <<gridVars, histVars>>

\* Life.randomize_table, then control goes to line `next`.
\* range(0, full_table_size, 0) raises ValueError.
randomize_table(next) ==
    IF width = 0
    THEN raise("ValueError")
    ELSE /\ \E t \in randomize_results(width, height) :
              /\ cells_table' = t
              /\ prev_cells_table' = deepcopy(t)
         /\ pc' = next
         /\ passes' = 0
         /\ UNCHANGED <<width, height, start_time, frame_count,
                        should_regenerate_screen, new_width, new_height,
                        visited, exc, clock>>
         /\ UNCHANGED <<gridVars, given_sizes, snap>>

\* line 169: self.randomize_table()
run_l169 ==
    /\ pc = "l169"
    /\ randomize_table("l171")

\* line 171: while self.should_continue_running()
run_l171 ==
    /\ pc = "l171"
    /\ pc' = IF should_continue_running THEN "l173" ELSE "l195"
    /\ UNCHANGED <<width, height, cells_table, prev_cells_table, start_time,
                   frame_count, should_regenerate_screen, new_width, new_height,
                   visited, exc, clock>>
    /\ UNCHANGED <<gridVars, histVars>>

\* line 173, left operand: if self.new_width and ...
run_l173 ==
    /\ pc = "l173"
    /\ pc' = IF Truthy(new_width) THEN "l173h" ELSE "l185"
    /\ UNCHANGED <<width, height, cells_table, prev_cells_table, start_time,
                   frame_count, should_regenerate_screen, new_width, new_height,
                   visited, exc, clock>>
    /\ UNCHANGED <<gridVars, histVars>>

\* line 173, right operand: ... and self.new_height
run_l173h ==
    /\ pc = "l173h"
    /\ pc' = IF Truthy(new_height) THEN "l174" ELSE "l185"
    /\ UNCHANGED <<width, height, cells_table, prev_cells_table, start_time,
                   frame_count, should_regenerate_screen, new_width, new_height,
                   visited, exc, clock>>
    /\ UNCHANGED <<gridVars, histVars>>

\* line 174: self.width = self.new_width
run_l174 ==
    /\ pc = "l174"
    /\ width' = new_width[1]
    /\ pc' = "l175"
    /\ UNCHANGED <<height, cells_table, prev_cells_table, start_time,
                   frame_count, should_regenerate_screen, new_width, new_height,
                   visited, exc, clock>>
    /\ UNCHANGED <<gridVars, histVars>>

\* line 175: self.height = self.new_height
run_l175 ==
    /\ pc = "l175"
    /\ height' = new_height[1]
    /\ pc' = "l176"
    /\ UNCHANGED <<width, cells_table, prev_cells_table, start_time,
                   frame_count, should_regenerate_screen, new_width, new_height,
                   visited, exc, clock>>
    /\ UNCHANGED <<gridVars, histVars>>

\* line 176: self.randomize_table()
run_l176 ==
    /\ pc = "l176"
    /\ randomize_table("l178")

\* line 178: self.new_width = None
run_l178 ==
    /\ pc = "l178"
    /\ new_width' = None
    /\ pc' = "l179"
    /\ UNCHANGED <<width, height, cells_table, prev_cells_table, start_time,
                   frame_count, should_regenerate_screen, new_height,
                   visited, exc, clock>>
    /\ UNCHANGED <<gridVars, histVars>>

\* line 179: self.new_height = None
run_l179 ==
    /\ pc = "l179"
    /\ new_height' = None
    /\ pc' = "l181"
    /\ UNCHANGED <<width, height, cells_table, prev_cells_table, start_time,
                   frame_count, should_regenerate_screen, new_width,
                   visited, exc, clock>>
    /\ UNCHANGED <<gridVars, histVars>>

\* lines 181-182 without the reset of frame_count.
run_l181_keep ==
    /\ pc = "l181"
    /\ start_time' = clock
    /\ pc' = "l185"
    /\ UNCHANGED <<width, height, cells_table, prev_cells_table, frame_count,
                   should_regenerate_screen, new_width, new_height,
                   visited, exc, clock>>
    /\ UNCHANGED <<gridVars, histVars>>

\* lines 181-182: self.start_time = time.time(); self.frame_count = 0
run_l181 ==
    /\ pc = "l181"
    /\ start_time' = clock
    /\ frame_count' = 0
    /\ pc' = "l185"
    /\ UNCHANGED <<width, height, cells_table, prev_cells_table,
                   should_regenerate_screen, new_width, new_height,
                   visited, exc, clock>>
    /\ UNCHANGED <<gridVars, histVars>>

\* line 185, one iteration of apply_rules' inner loop, on cell p.
apply_rules_at(p) ==
    /\ pc = "l185"
    /\ p \in CellsOf(cells_table) \ visited
    /\ cells_table' = apply_rules_cell(cells_table, prev_cells_table, width, height,
                                       p[1], p[2])
    /\ visited' = visited \cup {p}
    /\ UNCHANGED <<width, height, prev_cells_table, start_time, frame_count,
                   should_regenerate_screen, new_width, new_height, pc, exc, clock>>
    /\ UNCHANGED <<gridVars, histVars>>

\* apply_rules visits the cells in the order of enumerate(): row by row.
apply_rules_next ==
    /\ pc = "l185"
    /\ CellsOf(cells_table) \ visited /= {}
    /\ apply_rules_at(FirstOf(CellsOf(cells_table) \ visited))

\* line 185, apply_rules returns: every cell was visited.
apply_rules_return ==
    /\ pc = "l185"
    /\ CellsOf(cells_table) \ visited = {}
    /\ visited' = {}
    /\ passes' = passes + 1
    /\ pc' = "l188"
    /\ UNCHANGED <<width, height, cells_table, prev_cells_table, start_time,
                   frame_count, should_regenerate_screen, new_width, new_height,
                   exc, clock>>
    /\ UNCHANGED <<gridVars, given_sizes, snap>>

\* line 188 left out: prev_cells_table keeps the generation before.
run_l188_stale ==
    /\ pc = "l188"
    /\ pc' = "l191"
    /\ UNCHANGED <<width, height, cells_table, prev_cells_table, start_time,
                   frame_count, should_regenerate_screen, new_width, new_height,
                   visited, exc, clock>>
    /\ UNCHANGED <<gridVars, histVars>>

\* line 188: self.prev_cells_table = copy.deepcopy(self.cells_table)
run_l188 ==
    /\ pc = "l188"
    /\ prev_cells_table' = deepcopy(cells_table)
    /\ pc' = "l191"
    /\ UNCHANGED <<width, height, cells_table, start_time, frame_count,
                   should_regenerate_screen, new_width, new_height, visited,
                   exc, clock>>
    /\ UNCHANGED <<gridVars, histVars>>

\* print_cells_table indexes cells_table[row_idx][column_idx] for row_idx in
\* range(height), column_idx in range(width), then output_rows[0].
print_index_error ==
    \/ height <= 0
    \/ \E r \in 0..(height - 1), c \in 0..(width - 1) : <<r, c>> \notin CellsOf(cells_table)

\* line 191: self.print_cells_table().  The frame shows frame_count.  The wall
\* clock has advanced since start_time was set, so the frame rate is defined.
run_l191 ==
    /\ pc = "l191"
    /\ IF print_index_error
       THEN raise("IndexError")
       ELSE /\ pc' = "l193"
            /\ UNCHANGED <<width, height, cells_table, prev_cells_table, start_time,
                           frame_count, should_regenerate_screen, new_width,
                           new_height, visited, exc, clock>>
            /\ UNCHANGED <<gridVars, histVars>>

\* line 193 with the increment lost.
run_l193_skip ==
    /\ pc = "l193"
    /\ pc' = "l171"
    /\ UNCHANGED <<width, height, cells_table, prev_cells_table, start_time,
                   frame_count, should_regenerate_screen, new_width, new_height,
                   visited, exc, clock>>
    /\ UNCHANGED <<gridVars, histVars>>

\* line 193: self.frame_count += 1
run_l193 ==
    /\ pc = "l193"
    /\ frame_count < MaxFrames
    /\ frame_count' = frame_count + 1
    /\ pc' = "l171"
    /\ UNCHANGED <<width, height, cells_table, prev_cells_table, start_time,
                   should_regenerate_screen, new_width, new_height, visited,
                   exc, clock>>
    /\ UNCHANGED <<gridVars, histVars>>

\* one step of run()
run ==
    \/ run_l169
    \/ run_l171
    \/ run_l173
    \/ run_l173h
    \/ run_l174
    \/ run_l175
    \/ run_l176
    \/ run_l178
    \/ run_l179
    \/ run_l181
    \/ apply_rules_next
    \/ apply_rules_return
    \/ run_l188
    \/ run_l191
    \/ run_l193

\* ------------------------------------------------------------------ Spec
\* main.py run with an explicit positive size; window changes to positive sizes.
Init ==
    /\ \E s \in PositiveSizes(MaxRunCells) : LifeInit(s[1], s[2])
    /\ GridIdle
    /\ given_sizes = {}

sigwinch_handler ==
    /\ \E s \in PositiveSizes(MaxRunCells) : update_window_size(s[1], s[2])
    /\ UNCHANGED given_sizes

Next ==
    \/ run
    \/ sigwinch_handler
    \/ tick

Spec == Init /\ [][Next]_vars

\* the same program and inputs where time is not observed: what the tables,
\* the sizes and the position of run() do depends on no clock value.
NextSizes ==
    \/ run
    \/ sigwinch_handler

SpecSizes == Init /\ [][NextSizes]_vars

\* the same program and inputs, with the log of the sizes it was given.
InitLog ==
    /\ \E s \in PositiveSizes(MaxRunCells) :
          /\ LifeInit(s[1], s[2])
          /\ given_sizes = {s}
    /\ GridIdle

sigwinch_handler_logged ==
    \E s \in PositiveSizes(MaxRunCells) :
        /\ s \in given_sizes \/ Cardinality(given_sizes) <= MaxRequests
        /\ update_window_size(s[1], s[2])
        /\ given_sizes' = given_sizes \cup {s}

NextLog ==
    \/ run
    \/ sigwinch_handler_logged
    \/ tick

SpecLog == InitLog /\ [][NextLog]_vars

\* main.py run with a positive size; window changes to any integer size.
sigwinch_handler_any ==
    /\ \E s \in AnySizes(MaxRunCells) : update_window_size(s[1], s[2])
    /\ UNCHANGED given_sizes

NextRequestAny ==
    \/ run
    \/ sigwinch_handler_any
    \/ tick

SpecRequestAny == Init /\ [][NextRequestAny]_vars

\* main.py run with any integer size; window changes to positive sizes.
InitAny ==
    /\ \E s \in AnySizes(MaxRunCells) : LifeInit(s[1], s[2])
    /\ GridIdle
    /\ given_sizes = {}

SpecConstructAny == InitAny /\ [][Next]_vars

\* ------------------------------------------------------------------ Grid.update_grid_full
\* line 72: _cells = a new buffer, all dead
update_grid_full_begin ==
    /\ grid_pc = "l72"
    /\ new_cells' = DeadCells(x_size, y_size)
    /\ grid_visited' = {}
    /\ grid_pc' = "l73"
    /\ UNCHANGED <<x_size, y_size, cells>>
    /\ UNCHANGED <<lifeVars, histVars>>

\* lines 75-85: one iteration of the inner loop, on the cell p = <<y, x>>.
update_grid_full_at(p) ==
    /\ grid_pc = "l73"
    /\ p \in CoordsOf(new_cells) \ grid_visited
    /\ new_cells' = update_grid_cell(cells, new_cells, x_size, y_size, p[2], p[1])
    /\ grid_visited' = grid_visited \cup {p}
    /\ UNCHANGED <<x_size, y_size, cells, grid_pc>>
    /\ UNCHANGED <<lifeVars, histVars>>

\* the loops of lines 73-74 visit y = 0.., and x = 0.. within each y.
update_grid_full_next ==
    /\ grid_pc = "l73"
    /\ CoordsOf(new_cells) \ grid_visited /= {}
    /\ update_grid_full_at(FirstOf(CoordsOf(new_cells) \ grid_visited))

\* line 88: self.cells = _cells
update_grid_full_return ==
    /\ grid_pc = "l73"
    /\ CoordsOf(new_cells) \ grid_visited = {}
    /\ cells' = new_cells
    /\ grid_pc' = "done"
    /\ UNCHANGED <<x_size, y_size, new_cells, grid_visited>>
    /\ UNCHANGED <<lifeVars, histVars>>

\* ------------------------------------------------------------------ one step
\* every grid of a size: a matrix of h rows of w cells
Grids(w, h) == [1..h -> [1..w -> BOOLEAN]]

\* Both programs about to step the same grid g of h rows of w cells:
\* Life enters apply_rules with prev_cells_table equal to cells_table (as
\* randomize_table and line 188 leave them), Grid enters update_grid_full.
StepInit(w, h, g) ==
    /\ width = w
    /\ height = h
    /\ cells_table = FreshTable(g)
    /\ prev_cells_table = deepcopy(FreshTable(g))
    /\ clock = 0
    /\ start_time = 0
    /\ frame_count = 0
    /\ should_regenerate_screen = FALSE
    /\ new_width = None
    /\ new_height = None
    /\ pc = "l185"
    /\ visited = {}
    /\ exc = ""
    /\ x_size = w
    /\ y_size = h
    /\ cells = g
    /\ new_cells = <<>>
    /\ grid_visited = {}
    /\ grid_pc = "l72"
    /\ given_sizes = {}
    /\ passes = 0
    /\ snap = g

\* a pass that visits the cells in another order than the source's
apply_rules_any == \E p \in CellsOf(cells_table) \ visited : apply_rules_at(p)

update_grid_full_any == \E p \in CoordsOf(new_cells) \ grid_visited : update_grid_full_at(p)

\* one step of each program, main.py's first, cells in the source's order
InitStep == \E s \in PositiveSizes(MaxCells) : \E g \in Grids(s[1], s[2]) : StepInit(s[1], s[2], g)

NextStep ==
    \/ apply_rules_next
    \/ apply_rules_return
    \/ pc = "l188" /\ update_grid_full_begin
    \/ pc = "l188" /\ update_grid_full_next
    \/ pc = "l188" /\ update_grid_full_return

SpecStep == InitStep /\ [][NextStep]_vars

\* one step of each program, cells in any order
InitOrder ==
    \E s \in PositiveSizes(MaxOrderCells) : \E g \in Grids(s[1], s[2]) : StepInit(s[1], s[2], g)

NextOrder ==
    \/ apply_rules_any
    \/ apply_rules_return
    \/ pc = "l188" /\ update_grid_full_begin
    \/ pc = "l188" /\ update_grid_full_any
    \/ pc = "l188" /\ update_grid_full_return

SpecOrder == InitOrder /\ [][NextOrder]_vars

\* ------------------------------------------------------------------ several steps
\* game.py lines 104-108: while True: print_grid(); update_grid_full();
\* clear_grid().  The loop comes round to update_grid_full again.
grid_main_loop ==
    /\ grid_pc = "done"
    /\ grid_pc' = "l72"
    /\ UNCHANGED <<x_size, y_size, cells, new_cells, grid_visited>>
    /\ UNCHANGED <<lifeVars, histVars>>

\* Both programs step the same grid again and again, no window change.  The
\* two programs share nothing; they are scheduled in turns (a pass of
\* apply_rules, then a pass of update_grid_full, then the rest of run()'s
\* iteration), so that `passes` counts the steps of both.
NextSteps ==
    \/ apply_rules_next
    \/ apply_rules_return
    \/ pc = "l188" /\ update_grid_full_begin
    \/ pc = "l188" /\ update_grid_full_next
    \/ pc = "l188" /\ update_grid_full_return
    \/ grid_pc = "done" /\ run_l188
    \/ pc = "l191" /\ grid_main_loop
    \/ grid_pc = "l72" /\ run_l191
    \/ run_l193
    \/ run_l171
    \/ run_l173

\* every grid of at most MaxTwinCells cells
InitSteps ==
    \E s \in PositiveSizes(MaxTwinCells) : \E g \in Grids(s[1], s[2]) : StepInit(s[1], s[2], g)

SpecSteps == InitSteps /\ [][NextSteps]_vars

\* h rows of w cells, dead but for the run of 3 cells in row r, columns c-1..c+1
HorizontalRun(w, h, r, c) ==
    [y \in 1..h |-> [x \in 1..w |-> y - 1 = r /\ x - 1 \in {c - 1, c, c + 1}]]

\* h rows of w cells, dead but for the cells of column c in rows r-1..r+1
VerticalRun(w, h, r, c) ==
    [y \in 1..h |-> [x \in 1..w |-> x - 1 = c /\ y - 1 \in {r - 1, r, r + 1}]]

\* grids of at least 5 x 5 whose only alive cells are a horizontal run of 3, in
\* any row and at any position of the row
InitBlinker ==
    \E w \in 5..MaxBlinkerSide, h \in 5..MaxBlinkerSide :
        \E r \in 0..(h - 1), c \in 1..(w - 2) : StepInit(w, h, HorizontalRun(w, h, r, c))

SpecBlinker == InitBlinker /\ [][NextSteps]_vars

\* ------------------------------------------------------------------ Grid.flip_cell
\* no Life of main.py is in use
LifeIdle ==
    /\ width = 0
    /\ height = 0
    /\ cells_table = ReplicatedTable(0, 0)
    /\ prev_cells_table = ReplicatedTable(0, 0)
    /\ clock = 0
    /\ start_time = 0
    /\ frame_count = 0
    /\ should_regenerate_screen = FALSE
    /\ new_width = None
    /\ new_height = None
    /\ pc = "idle"
    /\ visited = {}
    /\ exc = ""
    /\ passes = 0
    /\ snap = <<>>

\* the state Grid(xs, ys) leaves: every cell dead
GridInit(xs, ys) ==
    /\ x_size = xs
    /\ y_size = ys
    /\ cells = DeadCells(xs, ys)
    /\ new_cells = <<>>
    /\ grid_visited = {}
    /\ grid_pc = "ready"

\* Grid.flip_cell(x, y): self.cells[y][x].alive = not self.cells[y][x].alive.
\* The two subscripts are list subscripts; an IndexError ends the program.
flip_cell(x, y) ==
    /\ grid_pc = "ready"
    /\ IF /\ PyIndexOk(y, Len(cells))
          /\ PyIndexOk(x, Len(cells[PyIndex(y, Len(cells)) + 1]))
       THEN /\ cells' = [cells EXCEPT ![PyIndex(y, Len(cells)) + 1]
                                       [PyIndex(x, Len(cells[PyIndex(y, Len(cells)) + 1])) + 1]
                                           = ~@]
            /\ UNCHANGED grid_pc
       ELSE /\ grid_pc' = "IndexError"
            /\ UNCHANGED cells
    /\ UNCHANGED <<x_size, y_size, new_cells, grid_visited>>
    /\ UNCHANGED <<lifeVars, histVars>>

\* the coordinates flip_cell is called with: inside the grid and off each side
FlipCoords == (-(MaxFlipCells + 1))..(MaxFlipCells + 1)

\* a new Grid of a positive size, then any calls of flip_cell
InitFlip ==
    /\ \E s \in PositiveSizes(MaxFlipCells) : GridInit(s[1], s[2])
    /\ LifeIdle
    /\ given_sizes = {}

NextFlip == \E x \in FlipCoords, y \in FlipCoords : flip_cell(x, y)

SpecFlip == InitFlip /\ [][NextFlip]_vars

\* ================================================================== claims
\* the rules of the game, stated on a matrix g of rows of cells
Offsets == {d \in {-1, 0, 1} \X {-1, 0, 1} : d /= <<0, 0>>}

\* the alive cells among the neighbours of (r, c) that lie inside g
LiveNeighbours(g, r, c) ==
    Cardinality({d \in Offsets :
        /\ r + d[1] \in 0..(Len(g) - 1)
        /\ c + d[2] \in 0..(Len(g[1]) - 1)
        /\ g[r + d[1] + 1][c + d[2] + 1]})

RuleAlive(g, r, c) ==
    \/ g[r + 1][c + 1] /\ LiveNeighbours(g, r, c) \in {2, 3}
    \/ ~g[r + 1][c + 1] /\ LiveNeighbours(g, r, c) = 3

RuleStep(g) == [r \in 1..Len(g) |-> [c \in 1..Len(g[r]) |-> RuleAlive(g, r - 1, c - 1)]]

IsCorner(w, h, r, c) == r \in {0, h - 1} /\ c \in {0, w - 1}

IsEdge(w, h, r, c) == (r \in {0, h - 1} \/ c \in {0, w - 1}) /\ ~IsCorner(w, h, r, c)

\* C1: after one step (apply_rules entered with prev_cells_table equal to
\* cells_table; update_grid_full) every cell is alive iff it was alive with 2 or 3
\* live neighbours or dead with exactly 3, counted in the grid before the step.
C1_StepFollowsRules ==
    /\ pc = "l188" => Matrix(cells_table) = RuleStep(snap)
    /\ grid_pc = "done" => cells = RuleStep(snap)

\* both programs have stepped a grid in which a cell survived, one was born,
\* one died of overpopulation and one of underpopulation
C1_Witness ==
    /\ pc = "l188"
    /\ grid_pc = "done"
    /\ \E p \in CoordsOf(snap) : snap[p[1] + 1][p[2] + 1] /\ cells[p[1] + 1][p[2] + 1]
    /\ \E p \in CoordsOf(snap) : ~snap[p[1] + 1][p[2] + 1] /\ cells[p[1] + 1][p[2] + 1]
    /\ \E p \in CoordsOf(snap) :
          snap[p[1] + 1][p[2] + 1] /\ LiveNeighbours(snap, p[1], p[2]) >= 4
          /\ ~At(cells_table, p[1], p[2])
    /\ \E p \in CoordsOf(snap) :
          snap[p[1] + 1][p[2] + 1] /\ LiveNeighbours(snap, p[1], p[2]) <= 1
          /\ ~At(cells_table, p[1], p[2])

\* C2: for every cell inside the grid the live-neighbour count of either program
\* is the number of alive cells among the 8 offsets that lie inside the grid (no
\* wrap-around): in 0..8, at most 3 for a corner, at most 5 for another edge cell.
C2_NeighbourCount ==
    /\ \A p \in CellsOf(prev_cells_table) :
          LET n == get_alive_neighbours(prev_cells_table, width, height, p[1], p[2])
          IN  /\ n = LiveNeighbours(Matrix(prev_cells_table), p[1], p[2])
              /\ n \in 0..8
              /\ IsCorner(width, height, p[1], p[2]) => n <= 3
              /\ IsEdge(width, height, p[1], p[2]) => n <= 5
    /\ \A p \in CoordsOf(cells) :
          LET n == neighbours_sum(get_neighbours(cells, x_size, y_size, p[2], p[1]))
          IN  /\ n = LiveNeighbours(cells, p[1], p[2])
              /\ n \in 0..8
              /\ IsCorner(x_size, y_size, p[1], p[2]) => n <= 3
              /\ IsEdge(x_size, y_size, p[1], p[2]) => n <= 5

\* both programs have stepped the 3 x 3 grid of alive cells: the centre counts 8,
\* a corner 3, an edge 5
C2_Witness ==
    /\ pc = "l188"
    /\ grid_pc = "done"
    /\ snap = [r \in 1..3 |-> [c \in 1..3 |-> TRUE]]
    /\ get_alive_neighbours(prev_cells_table, width, height, 1, 1) = 8
    /\ get_alive_neighbours(prev_cells_table, width, height, 0, 0) = 3
    /\ get_alive_neighbours(prev_cells_table, width, height, 0, 1) = 5
    /\ neighbours_sum(get_neighbours(snap, x_size, y_size, 1, 1)) = 8
    /\ neighbours_sum(get_neighbours(snap, x_size, y_size, 2, 2)) = 3
    /\ neighbours_sum(get_neighbours(snap, x_size, y_size, 1, 2)) = 5

\* C3: during a pass the buffer the neighbour counts are read from is not
\* written; the alive state and the count a later visit reads are those of the
\* grid the pass was entered with; and the grid a pass produces is the same for
\* every order of visiting the cells.
C3_SnapshotPass ==
    /\ pc \in {"l185", "l188"} => Matrix(prev_cells_table) = snap
    /\ pc = "l185" =>
          \A p \in CellsOf(cells_table) \ visited :
              /\ At(cells_table, p[1], p[2]) = snap[p[1] + 1][p[2] + 1]
              /\ get_alive_neighbours(prev_cells_table, width, height, p[1], p[2])
                     = LiveNeighbours(snap, p[1], p[2])
    /\ pc = "l188" =>
          cells_table = apply_rules(FreshTable(snap), FreshTable(snap), width, height)
    /\ grid_pc \in {"l72", "l73"} => cells = snap
    /\ grid_pc = "l73" =>
          \A p \in CoordsOf(new_cells) \ grid_visited :
              neighbours_sum(get_neighbours(cells, x_size, y_size, p[2], p[1]))
                  = LiveNeighbours(snap, p[1], p[2])
    /\ grid_pc = "done" => cells = update_grid_full(snap, x_size, y_size)

\* a pass of apply_rules, out of the source's order, has changed a cell next to
\* a cell that comes earlier in the source's order and is still to be visited
C3_Witness ==
    /\ pc = "l185"
    /\ \E p \in visited : \E q \in CellsOf(cells_table) \ visited :
          /\ q = FirstOf({p, q})
          /\ p[1] - q[1] \in {-1, 0, 1}
          /\ p[2] - q[2] \in {-1, 0, 1}
          /\ At(cells_table, p[1], p[2]) /= snap[p[1] + 1][p[2] + 1]

\* the number of rows and the length of each row of a table
Shape(t) == <<NumRows(t), [r \in 1..NumRows(t) |-> RowLen(t, r - 1)]>>

\* a step of the SIGWINCH handler: run() stays where it is and the pending
\* request changes
HandlerStep ==
    /\ pc' = pc
    /\ <<should_regenerate_screen, new_width, new_height>>'
           /= <<should_regenerate_screen, new_width, new_height>>

\* C4: a resize notification only records the pending request (width, height,
\* both tables, frame_count and start_time stay); width, height and the tables'
\* sizes change only in the pending-resize block (lines 174-176), never during
\* apply_rules or print_cells_table.
C4_HandlerOnlyRecords ==
    [][ /\ HandlerStep =>
              UNCHANGED <<width, height, cells_table, prev_cells_table,
                          frame_count, start_time>>
        /\ width' /= width => pc = "l174"
        /\ height' /= height => pc = "l175"
        /\ (Shape(cells_table') /= Shape(cells_table)
              \/ Shape(prev_cells_table') /= Shape(prev_cells_table)) => pc = "l176"
        /\ pc \in {"l185", "l188", "l191", "l193"} =>
              /\ UNCHANGED <<width, height>>
              /\ Shape(cells_table') = Shape(cells_table)
              /\ Shape(prev_cells_table') = Shape(prev_cells_table)
      ]_vars

\* a request for another size is pending in the middle of an apply_rules pass
\* and the tables still have the size of the running pass
C4_Witness ==
    /\ pc = "l185"
    /\ visited /= {}
    /\ CellsOf(cells_table) \ visited /= {}
    /\ should_regenerate_screen
    /\ Truthy(new_width)
    /\ Truthy(new_height)
    /\ <<new_width[1], new_height[1]>> /= <<width, height>>
    /\ HasShape(cells_table, width, height)
    /\ HasShape(prev_cells_table, width, height)

\* C5: whenever a frame is computed or rendered, (width, height) is the initial
\* size or the (new_width, new_height) pair of one single resize request.
C5_SizeIsOneRequest ==
    pc \in {"l185", "l188", "l191"} => <<width, height>> \in given_sizes

\* C6: no recorded request is dropped by the loop clearing new_width and
\* new_height: what lines 178-179 clear is the request lines 174-175 applied.
C6_NoRequestDropped ==
    [][ /\ (pc = "l178" /\ pc' = "l179") => new_width = Some(width)
        /\ (pc = "l179" /\ pc' = "l181") => new_height = Some(height)
      ]_vars

\* a pending request with a zero or negative dimension
BadPending ==
    \/ new_width /= None /\ new_width[1] <= 0
    \/ new_height /= None /\ new_height[1] <= 0

\* C7: while a request with a dimension <= 0 is pending, the steps of run()
\* keep width, height and the size of both tables, and raise no error.
C7_BadRequestIgnored ==
    [][ (BadPending /\ pc' /= pc) =>
            /\ UNCHANGED <<width, height>>
            /\ Shape(cells_table') = Shape(cells_table)
            /\ Shape(prev_cells_table') = Shape(prev_cells_table)
            /\ exc' = ""
      ]_vars

\* C8: a Life with width <= 0 or height <= 0 does not get past construction: it
\* is never seeded, stepped or rendered.
C8_NonPositiveSizeRejected ==
    (width <= 0 \/ height <= 0) => pc = "l169"

\* C9: applying a pending resize replaces both buffers with one newly built
\* grid of the new size (rows of their own, prev_cells_table a copy of
\* cells_table), clears the pending request, resets frame_count and start_time,
\* all before the next apply_rules; the first frame after it shows frame_count 0.
C9_ResizeResets ==
    [][ /\ (pc = "l176" /\ pc' = "l178") =>
              /\ Matrix(cells_table') \in Grids(width, height)
              /\ HasShape(cells_table', width, height)
              /\ IndependentRows(cells_table')
              /\ prev_cells_table' = cells_table'
              /\ passes' = 0
        /\ (pc = "l178" /\ pc' /= pc) => (new_width' = None /\ pc' = "l179")
        /\ (pc = "l179" /\ pc' /= pc) => (new_height' = None /\ pc' = "l181")
        /\ (pc = "l181" /\ pc' /= pc) =>
              (frame_count' = 0 /\ start_time' = clock /\ pc' = "l185")
        /\ (pc' = "l191" /\ passes' = 1) => frame_count' = 0
      ]_vars

\* the first frame after a resize is about to be printed: start_time was set
\* after the clock had advanced, frame_count is 0
C9_Witness ==
    /\ pc = "l191"
    /\ passes = 1
    /\ frame_count = 0
    /\ start_time > 0
    /\ new_width = None
    /\ new_height = None

\* C10 as stated: at every call of print_cells_table, frame_count equals the
\* number of apply_rules passes since the grid was last seeded.
C10_FrameCountIsPasses ==
    pc = "l191" => frame_count = passes

\* C10 amended: each iteration runs one pass, one render and one increment, the
\* increment after the render: at every call of print_cells_table frame_count
\* is the number of passes since the last seeding less one, and at the top of
\* the loop and at the entry of apply_rules it is that number.
C10_FrameCountIsPassesLessOne ==
    /\ pc \in {"l188", "l191", "l193"} => frame_count = passes - 1
    /\ pc \in {"l171", "l173", "l173h", "l174", "l175", "l185"} => frame_count = passes

\* the second frame since the seeding is about to be printed
C10_Witness ==
    /\ pc = "l191"
    /\ passes = 2
    /\ frame_count = 1

\* C11: whenever print_cells_table is called (the clock has advanced since
\* start_time), it emits exactly height rows of exactly width characters: the
\* frame info laid over the first row leaves its length at width.
C11_PrintKeepsShape ==
    (pc = "l191" /\ ~print_index_error /\ clock > start_time) =>
        LET out == output_rows(cells_table, width, height, frame_count, clock - start_time)
        IN  /\ Len(out) = height
            /\ \A r \in 1..height : Len(out[r]) = width

\* the centre of the horizontal run the grid `snap` holds
RunCentre ==
    CHOOSE p \in CoordsOf(snap) :
        /\ p[2] >= 1
        /\ p[2] + 1 < Len(snap[1])
        /\ \A d \in {-1, 0, 1} : snap[p[1] + 1][p[2] + d + 1]

\* the number of alive cells of a matrix
AliveCount(g) == Cardinality({p \in CoordsOf(g) : g[p[1] + 1][p[2] + 1]})

\* the grid a blinker shows after n steps: the vertical run of 3 through the
\* centre for odd n, the horizontal run it started as for even n
BlinkerAfter(n) ==
    IF n % 2 = 1 THEN VerticalRun(Len(snap[1]), Len(snap), RunCentre[1], RunCentre[2])
    ELSE snap

\* both programs show the blinker's phase after the steps they have made
BlinkerOscillates ==
    /\ pc = "l188" =>
          /\ Matrix(cells_table) = BlinkerAfter(passes)
          /\ AliveCount(Matrix(cells_table)) = 3
    /\ grid_pc = "done" =>
          /\ cells = BlinkerAfter(passes)
          /\ AliveCount(cells) = 3

\* C12 as stated: a horizontal run of 3 in ANY row of a grid of at least 5 x 5
\* becomes the vertical run of 3 through its centre after one step and itself
\* again after two.
C12_BlinkerAnyRow == BlinkerOscillates

\* C12 amended: the same for a run in a row that has a row above and a row
\* below it (not the first and not the last row of the grid).
C12_BlinkerInnerRow ==
    RunCentre[1] \in 1..(Len(snap) - 2) => BlinkerOscillates

\* a run that starts at the left edge, in the second row, is horizontal again
\* after two steps of both programs, and was vertical in between
C12_Witness ==
    /\ pc = "l188"
    /\ grid_pc = "done"
    /\ passes = 2
    /\ RunCentre = <<1, 1>>
    /\ Matrix(cells_table) = snap
    /\ cells = snap
    /\ Matrix(prev_cells_table) = VerticalRun(width, height, 1, 1)
    /\ Matrix(prev_cells_table) /= snap

\* writing any cell of table t leaves every other cell of t as it was
WriteIsLocal(t) ==
    \A p \in CellsOf(t) : \A q \in CellsOf(t) \ {p} :
        At(SetAt(t, p[1], p[2], ~At(t, p[1], p[2])), q[1], q[2]) = At(t, q[1], q[2])

\* C13: in every state from construction on, no two rows of cells_table or of
\* prev_cells_table are the same object, so a write to one cell changes no other
\* cell; and before the first randomize_table every cell is dead.  (The two
\* tables are built by two expressions and share no row; the rows of Grid.cells
\* are built one by one.)
C13_RowsIndependent ==
    /\ IndependentRows(cells_table)
    /\ IndependentRows(prev_cells_table)
    /\ WriteIsLocal(cells_table)
    /\ WriteIsLocal(prev_cells_table)
    /\ pc = "l169" =>
          \A p \in CellsOf(cells_table) :
              ~At(cells_table, p[1], p[2]) /\ ~At(prev_cells_table, p[1], p[2])

\* C14: flip_cell(x, y) with 0 <= x < x_size and 0 <= y < y_size toggles exactly
\* the cell cells[y][x] and leaves the others; with any other coordinate,
\* negative ones included, it fails with IndexError and changes no cell.
C14_FlipInBoundsOrFails ==
    [][ \A x \in FlipCoords, y \in FlipCoords :
            flip_cell(x, y) =>
                IF x \in 0..(x_size - 1) /\ y \in 0..(y_size - 1)
                THEN /\ cells' = [cells EXCEPT ![y + 1][x + 1] = ~@]
                     /\ grid_pc' = "ready"
                ELSE /\ cells' = cells
                     /\ grid_pc' = "IndexError"
      ]_vars

\* every cell of both tables is dead
AllDead ==
    \A p \in CellsOf(cells_table) : ~At(cells_table, p[1], p[2]) /\ ~At(prev_cells_table, p[1], p[2])

\* C15: should_continue_running is true in every state and run() never reaches
\* its return (line 195): the test of line 171 always enters the loop body,
\* every iteration ends with frame_count one higher and goes back to line 171,
\* and frame_count changes in no other way but the reset of a resize.
C15_NeverReturns ==
    /\ [](should_continue_running /\ pc /= "l195")
    /\ [][ /\ (pc = "l171" /\ pc' /= pc) => pc' = "l173"
           /\ (pc = "l193" /\ pc' /= pc) =>
                 (frame_count' = frame_count + 1 /\ pc' = "l171")
           /\ frame_count' /= frame_count =>
                 (pc = "l193" \/ (pc = "l181" /\ frame_count' = 0))
         ]_vars

\* the loop was entered again with a grid that is stable (all dead, equal to
\* the previous generation) and a frame already counted
C15_Witness ==
    /\ pc = "l185"
    /\ visited = {}
    /\ frame_count = 1
    /\ passes = 1
    /\ AllDead
    /\ Matrix(cells_table) = Matrix(prev_cells_table)

\* every probe of get_alive_neighbours around (row_idx, column_idx) that passes
\* the test of line 104 reads a cell that prev_cells_table has
ProbesInside(row_idx, column_idx) ==
    \A i \in 1..8 :
        LET q == neighbour_indices(row_idx, column_idx)[i]
        IN  (0 <= q[1] /\ q[1] < height /\ 0 <= q[2] /\ q[2] < width)
                => (q[1] < NumRows(prev_cells_table) /\ q[2] < RowLen(prev_cells_table, q[1]))

\* C16: with a positive initial size and positive resize requests, arriving at
\* any time, from the entry of apply_rules to the call of print_cells_table both
\* tables have exactly height rows of exactly width cells, no probe leaves the
\* tables, and no exception (the renderer's IndexError included) ends run().
C16_TablesHaveSize ==
    /\ exc = ""
    /\ pc \in {"l185", "l188", "l191"} =>
          /\ HasShape(cells_table, width, height)
          /\ HasShape(prev_cells_table, width, height)
          /\ \A r \in 0..(height - 1), c \in 0..(width - 1) : ProbesInside(r, c)

\* the resize block has run (a request was recorded, applied and cleared) and
\* a pass over the tables it built is under way
C16_Witness ==
    /\ pc = "l185"
    /\ visited /= {}
    /\ CellsOf(cells_table) \ visited /= {}
    /\ passes = 0
    /\ should_regenerate_screen
    /\ new_width = None
    /\ new_height = None
    /\ HasShape(cells_table, width, height)
    /\ HasShape(prev_cells_table, width, height)
    /\ width * height = MaxRunCells

\* C17: at every entry of apply_rules prev_cells_table equals cells_table cell
\* for cell, and all through the pass the alive state of a cell still to be
\* visited is the one prev_cells_table holds for it.
C17_BuffersEqualAtEntry ==
    /\ (pc = "l185" /\ visited = {}) => Matrix(prev_cells_table) = Matrix(cells_table)
    /\ pc = "l185" =>
          \A r \in 0..(height - 1), c \in 0..(width - 1) :
              <<r, c>> \in visited
                  \/ At(cells_table, r, c) = At(prev_cells_table, r, c)

\* apply_rules is entered for the second time since a resize was applied, and
\* the buffers are equal
C17_Witness ==
    /\ pc = "l185"
    /\ visited = {}
    /\ passes = 1
    /\ should_regenerate_screen
    /\ new_width = None
    /\ new_height = None
    /\ width * height = MaxRunCells
    /\ Matrix(prev_cells_table) = Matrix(cells_table)

\* both programs have made the same number of steps from the grid `snap`
SameSteps ==
    \/ pc = "l188" /\ grid_pc = "done"
    \/ pc \in {"l191", "l193", "l171", "l173"}
    \/ pc = "l185" /\ visited = {}

\* C18: started on the same grid, Life.apply_rules (entered with
\* prev_cells_table equal to cells_table) and Grid.update_grid_full produce the
\* same grid, cell for cell, after the first step and after every further step;
\* while update_grid_full has a step to catch up, its grid is the generation
\* main.py keeps in prev_cells_table.
C18_StepsAgree ==
    /\ SameSteps => Matrix(cells_table) = cells
    /\ (pc = "l188" /\ grid_pc \in {"l72", "l73"}) => Matrix(prev_cells_table) = cells
    /\ x_size = width
    /\ y_size = height

\* both programs have made two steps; the second generation has alive cells
\* and differs from the first, which differs from the start
C18_Witness ==
    /\ pc = "l188"
    /\ grid_pc = "done"
    /\ passes = 2
    /\ Matrix(cells_table) = cells
    /\ AliveCount(cells) > 0
    /\ cells /= RuleStep(snap)
    /\ RuleStep(snap) /= snap

====
